---- MODULE Spec2Model ----
(***************************************************************************)
(* LSB image steganography of stego_enhanced.py: encode_message hides a    *)
(* framed, XOR-masked message in the least-significant bits of an image,   *)
(* decode_message scans the bits back.  An image is a record               *)
(*   [height, width, pix]  with  pix[row][col][channel] \in 0..255,        *)
(* rows, columns and channels counted from 0 as numpy does.  A text is a   *)
(* sequence of Unicode code points, a byte string a sequence of 0..255.    *)
(***************************************************************************)
EXTENDS Integers, Sequences, FiniteSets, TLC

VARIABLES carrier, encoded, enc, dec

vars == <<carrier, encoded, enc, dec>>

----------------------------------------------------------------------------
(* Program constants *)

\* cv2.imread(path) reads with IMREAD_COLOR: img.shape is (height, width, 3)
Channels == 3

\* the literal 3 of the capacity computation
CapacityChannels == 3

\* bytes the capacity computation keeps back "for the header"
HeaderReserve == 64

\* 9 bytes * 8 bits: 'STEGO' and the 4-byte length
HeaderBits == 72

\* bits of the magic number 'STEGO'
MagicBits == 40

\* b'STEGO'
STEGO == <<83, 84, 69, 71, 79>>

\* U+FFFD, what errors='replace' puts for an undecodable sequence
Replacement == 65533

----------------------------------------------------------------------------
(* Bounds of the model *)

\* the longest message embed accepts on the largest image tried, in characters
MaxChars == 19

----------------------------------------------------------------------------
(* Bytes and bits *)

Pow2(i) ==
    CASE i = 0 -> 1 [] i = 1 -> 2 [] i = 2 -> 4 [] i = 3 -> 8
      [] i = 4 -> 16 [] i = 5 -> 32 [] i = 6 -> 64 [] i = 7 -> 128

BitOf(byte, i) == (byte \div Pow2(i)) % 2

\* char ^ key[...] on two bytes
Xor(a, b) ==
      ((BitOf(a, 0) + BitOf(b, 0)) % 2)
    + ((BitOf(a, 1) + BitOf(b, 1)) % 2) * 2
    + ((BitOf(a, 2) + BitOf(b, 2)) % 2) * 4
    + ((BitOf(a, 3) + BitOf(b, 3)) % 2) * 8
    + ((BitOf(a, 4) + BitOf(b, 4)) % 2) * 16
    + ((BitOf(a, 5) + BitOf(b, 5)) % 2) * 32
    + ((BitOf(a, 6) + BitOf(b, 6)) % 2) * 64
    + ((BitOf(a, 7) + BitOf(b, 7)) % 2) * 128

\* ''.join(format(byte, '08b') for byte in data): 8 bits a byte, the high bit first
ToBinary(data) ==
    [k \in 1..(8 * Len(data)) |-> BitOf(data[((k - 1) \div 8) + 1], 7 - ((k - 1) % 8))]

\* int(bits[start:start+8], 2), start counted from 0
ByteAt(bits, start) ==
      bits[start + 1] * 128 + bits[start + 2] * 64 + bits[start + 3] * 32
    + bits[start + 4] * 16 + bits[start + 5] * 8 + bits[start + 6] * 4
    + bits[start + 7] * 2 + bits[start + 8]

\* n.to_bytes(4, byteorder='big')
ToBytes4(n) ==
    << (n \div 16777216) % 256, (n \div 65536) % 256, (n \div 256) % 256, n % 256 >>

\* int.from_bytes(b, byteorder='big') of 4 bytes
FromBytes4(b) == b[1] * 16777216 + b[2] * 65536 + b[3] * 256 + b[4]

----------------------------------------------------------------------------
(* Text: str.encode() and bytes.decode('utf-8', errors='replace') *)

EncodeChar(cp) ==
    IF cp < 128 THEN << cp >>
    ELSE IF cp < 2048 THEN << 192 + (cp \div 64), 128 + (cp % 64) >>
    ELSE IF cp < 65536 THEN
        << 224 + (cp \div 4096), 128 + ((cp \div 64) % 64), 128 + (cp % 64) >>
    ELSE << 240 + (cp \div 262144), 128 + ((cp \div 4096) % 64),
            128 + ((cp \div 64) % 64), 128 + (cp % 64) >>

RECURSIVE Utf8Encode(_)
Utf8Encode(text) ==
    IF text = << >> THEN << >>
    ELSE EncodeChar(Head(text)) \o Utf8Encode(Tail(text))

IsContinuation(b) == b >= 128 /\ b < 192

\* One step of the decoder at byte i of b: the code point it yields and the
\* index it goes on from.  An undecodable sequence yields U+FFFD: a bad start
\* byte alone, a start byte with the continuation bytes that are valid so
\* far, or what is left of a sequence the data ends in.
DecodeStep(b, i) ==
    LET n    == Len(b)
        ch   == b[i]
        left == n - i + 1
        ch2  == b[i + 1]
        ch3  == b[i + 2]
        ch4  == b[i + 3]
        Bad(k) == [cp |-> Replacement, next |-> i + k]
        End    == [cp |-> Replacement, next |-> n + 1]
    IN  IF ch < 128 THEN [cp |-> ch, next |-> i + 1]
        ELSE IF ch < 194 THEN Bad(1)
        ELSE IF ch < 224 THEN
            IF left < 2 THEN End
            ELSE IF ~IsContinuation(ch2) THEN Bad(1)
            ELSE [cp |-> (ch - 192) * 64 + (ch2 - 128), next |-> i + 2]
        ELSE IF ch < 240 THEN
            IF left < 2 THEN End
            ELSE IF \/ ~IsContinuation(ch2)
                    \/ (ch = 224 /\ ch2 < 160)
                    \/ (ch = 237 /\ ch2 >= 160) THEN Bad(1)
            ELSE IF left < 3 THEN End
            ELSE IF ~IsContinuation(ch3) THEN Bad(2)
            ELSE [cp |-> (ch - 224) * 4096 + (ch2 - 128) * 64 + (ch3 - 128),
                  next |-> i + 3]
        ELSE IF ch < 245 THEN
            IF left < 2 THEN End
            ELSE IF \/ ~IsContinuation(ch2)
                    \/ (ch = 240 /\ ch2 < 144)
                    \/ (ch = 244 /\ ch2 >= 144) THEN Bad(1)
            ELSE IF left < 3 THEN End
            ELSE IF ~IsContinuation(ch3) THEN Bad(2)
            ELSE IF left < 4 THEN End
            ELSE IF ~IsContinuation(ch4) THEN Bad(3)
            ELSE [cp |-> (ch - 240) * 262144 + (ch2 - 128) * 4096
                          + (ch3 - 128) * 64 + (ch4 - 128),
                  next |-> i + 4]
        ELSE Bad(1)

\* The decoder's loop, one DecodeStep a round until the bytes are used up.
\* s is [i |-> the next byte, out |-> the text so far].
DecodeRound(b, s) ==
    IF s.i > Len(b) THEN s
    ELSE LET d == DecodeStep(b, s.i)
         IN  [i |-> d.next, out |-> Append(s.out, d.cp)]

\* 2^k rounds of the loop, as two halves of 2^(k-1) rounds: a round past the
\* end changes nothing, so the second half is left out when the first ends
\* the bytes.
RECURSIVE DecodeRounds(_, _, _)
DecodeRounds(b, s, k) ==
    IF k = 0 THEN DecodeRound(b, s)
    ELSE LET t == DecodeRounds(b, s, k - 1)
         IN  IF t.i > Len(b) THEN t ELSE DecodeRounds(b, t, k - 1)

\* the k with 2^k >= n, for the byte strings of the model (n <= 256)
RoundsFor(n) ==
    IF n <= 16 THEN 4 ELSE IF n <= 32 THEN 5 ELSE IF n <= 64 THEN 6
    ELSE IF n <= 128 THEN 7 ELSE 8

\* bytes.decode('utf-8', errors='replace'): every round of the loop uses up
\* at least one byte, so len(b) rounds decode all of b.  ok is FALSE where
\* the call would raise UnicodeDecodeError, which errors='replace' never does.
Utf8DecodeReplace(b) ==
    [ok   |-> TRUE,
     text |-> DecodeRounds(b, [i |-> 1, out |-> << >>], RoundsFor(Len(b))).out]

----------------------------------------------------------------------------
(* Images *)

\* cv2.imread of a path that holds no image: None
NoImage == [height |-> 0, width |-> 0, pix |-> << >>]

\* height * width * channels, the number of channel values of img
TotalChannels(img) == img.height * img.width * Channels

\* A variant of PositionIndex that walks column by column; the wire-format
\* property is expected to fail against it.
PositionIndexColumnMajor(img, row, col, channel) ==
    (col * img.height + row) * Channels + channel

\* The place of (row, col, channel) in the order of
\*   for row in range(height): for col in range(width): for channel in range(channels)
\* counted from 0.
PositionIndex(img, row, col, channel) ==
    (row * img.width + col) * Channels + channel

\* The channel value at place k (from 0) of that order.
ValueAt(img, k) ==
    img.pix[k \div (img.width * Channels)][(k \div Channels) % img.width][k % Channels]

----------------------------------------------------------------------------
(* encode_message *)

\* hashlib.sha256(password.encode()).digest(), for the passwords tried
Sha256Digest(password) ==
    CASE password = "pw" ->
           << 48, 201, 82, 250, 177, 34, 195, 249, 117, 159, 2, 166, 217, 92, 55, 88,
              178, 70, 180, 254, 226, 57, 149, 123, 45, 79, 238, 70, 226, 97, 112, 196 >>
      [] password = "xx" ->
           << 93, 222, 137, 104, 135, 246, 117, 76, 155, 21, 191, 227, 164, 65, 174, 72,
              6, 223, 47, 222, 148, 0, 19, 17, 224, 139, 241, 16, 98, 46, 11, 190 >>

\* A variant of max_bytes that reserves the 9 bytes of the header only; the
\* capacity property is expected to fail against it.
max_bytes_header_only(img) ==
    ((img.height * img.width * CapacityChannels) \div 8) - (HeaderBits \div 8)

\* max_bytes = (height * width * 3) // 8 - 64
max_bytes(img) ==
    ((img.height * img.width * CapacityChannels) \div 8) - HeaderReserve

\* the XOR of byte i of data (from 0) with key[i % len(key)]; encrypts and decrypts
XorWithKey(data, key) ==
    [i \in 1..Len(data) |-> Xor(data[i], key[((i - 1) % Len(key)) + 1])]

\* header + encrypted_message
data_to_hide(message, password) ==
    LET key               == Sha256Digest(password)
        encrypted_message == XorWithKey(Utf8Encode(message), key)
        header            == STEGO \o ToBytes4(Len(encrypted_message))
    IN  header \o encrypted_message

\* A variant of WriteBit that drops the upper seven bits; the preservation
\* property is expected to fail against it.
WriteBitOnly(value, bit) == bit

\* (img[row, col, channel] & 0xFE) | bit
WriteBit(value, bit) == ((value \div 2) * 2) + bit

\* The embedding loops.  data_index grows by one at every position visited
\* while it is below len(binary_data) and stays there afterwards (the break
\* leaves the channel loop only), so a position is written exactly when its
\* place in the loop order is below len(binary_data), with the bit at that
\* place.
EmbedWalk(img, binary_data) ==
    [img EXCEPT !.pix =
        [row \in 0..(img.height - 1) |->
          [col \in 0..(img.width - 1) |->
            [channel \in 0..(Channels - 1) |->
               LET data_index == PositionIndex(img, row, col, channel)
               IN  IF data_index < Len(binary_data)
                   THEN WriteBit(img.pix[row][col][channel], binary_data[data_index + 1])
                   ELSE img.pix[row][col][channel]]]]]

\* data_index when the loops end
FinalDataIndex(img, binary_data) ==
    IF Len(binary_data) < TotalChannels(img) THEN Len(binary_data)
    ELSE TotalChannels(img)

\* A variant of encode_message that embeds and saves first and compares the
\* length with max_bytes afterwards; the property that a refused call writes
\* nothing is expected to fail against it.
encode_message_checks_late(img, message, password) ==
    IF img = NoImage
    THEN [ok |-> FALSE, saved |-> FALSE, img |-> img, data_index |-> 0]
    ELSE LET binary_data == ToBinary(data_to_hide(message, password))
         IN  [ok         |-> ~(Len(message) > max_bytes(img)),
              saved      |-> TRUE,
              img        |-> EmbedWalk(img, binary_data),
              data_index |-> FinalDataIndex(img, binary_data)]

\* encode_message(image_path, message, password, output_path) on the image
\* img read from image_path: ok is the value returned, saved whether
\* cv2.imwrite ran, img the image in memory when the call ends and
\* data_index the number of bits written into it.
encode_message(img, message, password) ==
    IF img = NoImage
    THEN [ok |-> FALSE, saved |-> FALSE, img |-> img, data_index |-> 0]
    ELSE LET message_length == Len(message)
         IN  IF message_length > max_bytes(img)
             THEN [ok |-> FALSE, saved |-> FALSE, img |-> img, data_index |-> 0]
             ELSE LET binary_data == ToBinary(data_to_hide(message, password))
                  IN  [ok         |-> TRUE,
                       saved      |-> TRUE,
                       img        |-> EmbedWalk(img, binary_data),
                       data_index |-> FinalDataIndex(img, binary_data)]

----------------------------------------------------------------------------
(* decode_message *)

\* extracted_bits once every position is read: the least significant bit of
\* each channel value, in the order of the loops
LsbSequence(img) ==
    [k \in 1..TotalChannels(img) |-> ValueAt(img, k - 1) % 2]

\* A variant of the size test that lets a length field of zero through; the
\* header-acceptance property is expected to fail against it.
LengthUnreasonableAboveOnly(message_length, total) ==
    message_length > (total \div 8)

\* the "unreasonable message size" test on the length field
LengthUnreasonable(message_length, total) ==
    message_length <= 0 \/ message_length > (total \div 8)

\* decode_message(image_path, password) on the image img read from
\* image_path.  The loops add one bit to extracted_bits at every position and
\* then run the checks below on it; bits_read is len(extracted_bits) when
\* the call ends.  The checks read extracted_bits[0:72] and, past the length
\* check, extracted_bits[72:total_bits_needed], whose values are the same at
\* every iteration that reads them, so they are taken from all_bits.
decode_message(img, password) ==
    IF img = NoImage
    THEN [outcome |-> "Unreadable", text |-> << >>, bits_read |-> 0]
    ELSE
    LET total          == TotalChannels(img)
        all_bits       == LsbSequence(img)
        header_bytes   == [j \in 1..5 |-> ByteAt(all_bits, 8 * (j - 1))]
        message_length ==
            FromBytes4([j \in 1..4 |-> ByteAt(all_bits, MagicBits + 8 * (j - 1))])
        total_bits_needed == HeaderBits + message_length * 8
        \* the iteration that has n bits in extracted_bits reaches the return
        Returns(n) ==
            /\ n >= HeaderBits
            /\ header_bytes = STEGO
            /\ ~LengthUnreasonable(message_length, total)
            /\ ~(n < total_bits_needed)
    IN  IF \A n \in 1..total : ~Returns(n)
        THEN [outcome |-> "NotFound", text |-> << >>, bits_read |-> total]
        ELSE
        LET first == CHOOSE n \in 1..total :
                        Returns(n) /\ \A m \in 1..(n - 1) : ~Returns(m)
            encrypted_message ==
                [j \in 1..message_length |-> ByteAt(all_bits, HeaderBits + 8 * (j - 1))]
            decrypted_bytes == XorWithKey(encrypted_message, Sha256Digest(password))
            decoded         == Utf8DecodeReplace(decrypted_bytes)
        IN  IF decoded.ok
            THEN [outcome |-> "Message", text |-> decoded.text, bits_read |-> first]
            ELSE [outcome |-> "LikelyWrongPassword", text |-> << >>, bits_read |-> first]

----------------------------------------------------------------------------
(* Inputs tried *)

Passwords == {"pw", "xx"}

Repeat(cp, n) == [i \in 1..n |-> cp]

\* The empty text, "hi", e-acute (2 bytes in UTF-8) with 'h', the euro sign
\* (3 bytes), MaxChars and MaxChars + 1 times 'h', and MaxChars times U+1F600
\* (4 bytes each).
Messages ==
    { << >>, <<104, 105>>, <<233, 104>>, <<8364>>,
      Repeat(104, MaxChars), Repeat(104, MaxChars + 1), Repeat(128512, MaxChars) }

\* an image with every channel value v
Fill(h, w, v) ==
    [height |-> h, width |-> w,
     pix |-> [row \in 0..(h - 1) |-> [col \in 0..(w - 1) |->
                [channel \in 0..(Channels - 1) |-> v]]]]

\* an image whose channel values differ from place to place
Gradient(h, w) ==
    [height |-> h, width |-> w,
     pix |-> [row \in 0..(h - 1) |-> [col \in 0..(w - 1) |->
                [channel \in 0..(Channels - 1) |->
                   (row * 37 + col * 11 + channel * 5 + 1) % 256]]]]

\* an image whose least significant bits, in loop order, are bits (cut or
\* filled up with 0) above the even value base
FromBits(h, w, base, bits) ==
    [height |-> h, width |-> w,
     pix |-> [row \in 0..(h - 1) |-> [col \in 0..(w - 1) |->
                [channel \in 0..(Channels - 1) |->
                   LET k == (row * w + col) * Channels + channel + 1
                   IN  base + (IF k <= Len(bits) THEN bits[k] ELSE 0)]]]]

\* offset 0 bits, then the bits of magic, a 4-byte length field and payload
ForeignBits(offset, magic, length, payload) ==
    [i \in 1..offset |-> 0] \o ToBinary(magic \o ToBytes4(length) \o payload)

\* Images some other program wrote, as <<offset, magic, length>>: a frame
\* that fits, one that fits exactly, a length field of zero, one that needs
\* more bits than are left, one that exceeds the image, a wrong magic number,
\* and a frame that starts 1 or 9 bits into the image.
ForeignFrames ==
    { <<0, STEGO, 2>>, <<0, STEGO, 6>>, <<0, STEGO, 0>>, <<0, STEGO, 7>>,
      <<0, STEGO, 16>>, <<0, <<83, 84, 69, 71, 80>>, 2>>,
      <<1, STEGO, 2>>, <<9, STEGO, 2>> }

ForeignImages ==
    { FromBits(4, 10, 100,
               ForeignBits(f[1], f[2], f[3],
                           XorWithKey(Utf8Encode(Repeat(104, 6)), Sha256Digest("pw")))) :
        f \in ForeignFrames }

Carriers ==
    {Fill(2, 3, 0), Fill(2, 3, 255), Fill(10, 10, 0), Gradient(6, 37)}
        \cup ForeignImages

----------------------------------------------------------------------------
(* The state: the image file given as input, the output file, and the last *)
(* call of each function with what it returned.                            *)

NoEnc == [called |-> FALSE, message |-> << >>, password |-> "", ok |-> FALSE,
          saved |-> FALSE, data_index |-> 0]

NoDec == [called |-> FALSE, source |-> "", password |-> "", outcome |-> "",
          text |-> << >>, bits_read |-> 0]

Init ==
    /\ carrier \in Carriers
    /\ encoded = NoImage
    /\ enc = NoEnc
    /\ dec = NoDec

\* encode_message(carrier, message, password, encoded).  dec is the last
\* decode of the files as they are now, so a new encode clears it.
EncodeMessage(message, password) ==
    LET r == encode_message(carrier, message, password)
    IN  /\ encoded' = IF r.saved THEN r.img ELSE encoded
        /\ enc' = [called |-> TRUE, message |-> message, password |-> password,
                   ok |-> r.ok, saved |-> r.saved, data_index |-> r.data_index]
        /\ dec' = NoDec
        /\ UNCHANGED carrier

\* decode_message(path, password) for path the input file or the output file
DecodeMessage(source, password) ==
    LET img == IF source = "carrier" THEN carrier ELSE encoded
        r   == decode_message(img, password)
    IN  /\ dec' = [called |-> TRUE, source |-> source, password |-> password,
                   outcome |-> r.outcome, text |-> r.text, bits_read |-> r.bits_read]
        /\ UNCHANGED <<carrier, encoded, enc>>

Next ==
    \/ \E message \in Messages, password \in Passwords :
          EncodeMessage(message, password)
    \/ \E source \in {"carrier", "encoded"}, password \in Passwords :
          DecodeMessage(source, password)

Spec == Init /\ [][Next]_vars

----------------------------------------------------------------------------
(* Notions the properties are stated in *)

\* the image the last decode_message read
ImageRead == IF dec.source = "carrier" THEN carrier ELSE encoded

\* the number of bytes of the UTF-8 encoding of the text last given to
\* encode_message
PayloadBytes == Len(Utf8Encode(enc.message))

\* the number of bits of the frame of that text: 9 header bytes and the payload
FrameBits == HeaderBits + 8 * PayloadBytes

\* byte j (from 0) of the frame "STEGO" + 4-byte big-endian length + payload
\* XORed with the SHA-256 digest of the password, repeated every 32 bytes
FrameByte(j) ==
    IF j < 5 THEN STEGO[j + 1]
    ELSE IF j = 5 THEN (PayloadBytes \div 16777216) % 256
    ELSE IF j = 6 THEN (PayloadBytes \div 65536) % 256
    ELSE IF j = 7 THEN (PayloadBytes \div 256) % 256
    ELSE IF j = 8 THEN PayloadBytes % 256
    ELSE Xor(Utf8Encode(enc.message)[j - 8],
             Sha256Digest(enc.password)[((j - 9) % 32) + 1])

\* bit k (from 0) of the frame, most significant bit of each byte first
FrameBit(k) == (FrameByte(k \div 8) \div Pow2(7 - (k % 8))) % 2

\* the byte that the least significant bits at places k .. k+7 of img spell
LsbByte(img, k) == ByteAt(LsbSequence(img), k)

\* the length field of a header that starts at place k of img
LengthFieldAt(img, k) ==
    FromBytes4([j \in 1..4 |-> LsbByte(img, k + MagicBits + 8 * (j - 1))])

\* img holds, from place k on, a whole frame: the magic number, a length that
\* is not zero, and that many payload bytes within the image
FrameAt(img, k) ==
    /\ k + HeaderBits <= TotalChannels(img)
    /\ [j \in 1..5 |-> LsbByte(img, k + 8 * (j - 1))] = STEGO
    /\ LengthFieldAt(img, k) > 0
    /\ k + HeaderBits + 8 * LengthFieldAt(img, k) <= TotalChannels(img)

----------------------------------------------------------------------------
(* Properties *)

\* the last decode_message read the output file of a successful
\* encode_message, with the same password or another one
DecodedOwnFrame  == enc.ok /\ dec.called /\ dec.source = "encoded"
SamePassword     == dec.password = enc.password

\* C1: a text whose UTF-8 length is at most floor(T/8) - 9 bytes, the empty
\* text and texts with multi-byte characters included, comes back unchanged:
\* where encode_message took such a text, decode_message of the output with
\* the same password returns exactly that text.
C1_RoundTrip ==
    (DecodedOwnFrame /\ SamePassword
        /\ PayloadBytes <= (TotalChannels(carrier) \div 8) - (HeaderBits \div 8))
    => (dec.outcome = "Message" /\ dec.text = enc.message)

C3_RefusedWritesNothing ==
    [][ (enc'.called /\ ~enc'.ok)
          => (/\ carrier' = carrier
              /\ encoded' = encoded
              /\ ~enc'.saved
              /\ enc'.data_index = 0) ]_vars

\* a text was refused while the output file of an earlier call exists
C3_Witness ==
    /\ enc.called /\ ~enc.ok
    /\ Len(enc.message) > max_bytes(carrier)
    /\ encoded # NoImage

\* C4: decode_message with a password other than the one the frame was
\* written with ends in NotFound or LikelyWrongPassword, and never returns a
\* text.
C4_WrongPassword ==
    (DecodedOwnFrame /\ ~SamePassword)
    => (dec.outcome \in {"NotFound", "LikelyWrongPassword"})

\* C5: decode_message accepts no header whose first 5 bytes are not "STEGO",
\* whose length field is 0, or whose length field needs more payload bits
\* than follow the header in the image: on an image it could read that holds
\* no whole frame at its first position (an all-zero image, an image of fewer
\* than 72 values) it reads every position once and ends in NotFound, without
\* a text.
C5_NoAcceptableHeader ==
    (dec.called /\ ImageRead # NoImage /\ ~FrameAt(ImageRead, 0))
    => (/\ dec.outcome = "NotFound"
        /\ dec.text = << >>
        /\ dec.bits_read = TotalChannels(ImageRead))

\* decode_message ended on an image that starts with the magic number and a
\* length field of zero
C5_Witness ==
    /\ dec.called
    /\ TotalChannels(ImageRead) >= HeaderBits
    /\ [j \in 1..5 |-> LsbByte(ImageRead, 8 * (j - 1))] = STEGO
    /\ LengthFieldAt(ImageRead, 0) = 0
    /\ dec.outcome = "NotFound"

\* C6: a successful encode_message of a text of n bytes leaves the size of
\* the image and the upper 7 bits of every channel value as they were, and
\* leaves every value at a place from 72 + 8*n on, in row, column, channel
\* order, unchanged.
C6_UntouchedTail ==
    enc.ok =>
        /\ encoded.height = carrier.height
        /\ encoded.width = carrier.width
        /\ \A k \in 0..(TotalChannels(carrier) - 1) :
              /\ ValueAt(encoded, k) \div 2 = ValueAt(carrier, k) \div 2
              /\ k >= FrameBits => ValueAt(encoded, k) = ValueAt(carrier, k)

\* a frame was written that changed a bit of an image with values above 1,
\* and places after the frame exist, one of them with its lowest bit set
C6_Witness ==
    /\ enc.ok
    /\ \E k \in 0..(FrameBits - 1) :
          ValueAt(encoded, k) # ValueAt(carrier, k) /\ ValueAt(carrier, k) > 1
    /\ \E k \in FrameBits..(TotalChannels(carrier) - 1) : ValueAt(carrier, k) % 2 = 1

C8_Resynchronizes ==
    (/\ dec.called
     /\ ImageRead # NoImage
     /\ ~FrameAt(ImageRead, 0)
     /\ \E k \in 1..(TotalChannels(ImageRead) - HeaderBits) : FrameAt(ImageRead, k))
    => dec.outcome = "Message"

\* C9: whenever encode_message returns True, all 72 + 8*n bits of the frame
\* were written, n the number of bytes of the UTF-8 encoding of the text.
C9_NoTruncatedFrame ==
    enc.ok => enc.data_index = FrameBits

\* C10: the frame a successful encode_message wrote has a length field that
\* is above 0 and at most floor(height * width * channels / 8), the range
\* decode_message takes for valid.
C10_WrittenLengthValid ==
    enc.ok =>
        /\ LengthFieldAt(encoded, 0) > 0
        /\ LengthFieldAt(encoded, 0) <= TotalChannels(encoded) \div 8

====
